---- MODULE Spec2Model ----
(***************************************************************************)
(* GrowAssignment: the Explore screen's debounced hybrid search, the       *)
(* stock-overview cache of the details screen, and the add-to-watchlist    *)
(* modal, as one state machine per screen.                                 *)
(*                                                                         *)
(* Strings that the code inspects (search text, tickers, watchlist names)  *)
(* are sequences of one-character strings, so that trim(), toLowerCase()   *)
(* and includes() are computed.  Strings the code only passes along        *)
(* (prices, provider messages) are opaque TLA+ strings.                    *)
(***************************************************************************)
EXTENDS Integers, Sequences, FiniteSets, TLC

(* ------------------------------------------------------------------ *)
(* Bounds of the model                                                  *)
(* ------------------------------------------------------------------ *)
\* concurrent fetchSearchResults runs kept in flight
MaxSearches == 2
\* entries of the JS timer table
MaxTimers == 2
\* granularity of the clock, in ms
TickMs == 100
\* fetchStockOverview calls kept in flight
MaxCalls == 2
\* network requests counted per symbol
MaxRequests == 3
\* saveWatchlists runs kept in flight
MaxPending == 2
\* loadWatchlists runs kept in flight
MaxLoads == 1
\* presses of the bookmark icon, the Add button and the rows in one run
MaxPresses == 3
\* entries of a movers array handed to validateStockData
MaxItems == 2
\* fetchData runs of the Top Gainers / Top Losers screen
MaxFetches == 2
\* granularity of the request clock, in ms
RequestTickMs == 5000
\* chart requests kept in flight
MaxCharts == 3

(* ------------------------------------------------------------------ *)
(* Program constants                                                    *)
(* ------------------------------------------------------------------ *)
DEBOUNCE_DELAY == 300

(* ------------------------------------------------------------------ *)
(* String helpers: String.prototype.trim / toLowerCase / includes       *)
(* ------------------------------------------------------------------ *)
Lower(c) ==
  CASE c = "A" -> "a"
    [] c = "P" -> "p"
    [] OTHER -> c

toLowerCase(s) == [i \in 1..Len(s) |-> Lower(s[i])]

IsSpace(c) == c = " "

RECURSIVE TrimStart(_)
TrimStart(s) ==
  IF s = <<>> THEN <<>>
  ELSE IF IsSpace(Head(s)) THEN TrimStart(Tail(s)) ELSE s

RECURSIVE TrimEnd(_)
TrimEnd(s) ==
  IF s = <<>> THEN <<>>
  ELSE IF IsSpace(s[Len(s)]) THEN TrimEnd(SubSeq(s, 1, Len(s) - 1)) ELSE s

trim(s) == TrimEnd(TrimStart(s))

includes(s, sub) ==
  \E i \in 0..(Len(s) - Len(sub)) : SubSeq(s, i + 1, i + Len(sub)) = sub

Range(s) == {s[i] : i \in 1..Len(s)}

Min(a, b) == IF a < b THEN a ELSE b

(* ------------------------------------------------------------------ *)
(* Inputs of the Explore screen                                         *)
(* ------------------------------------------------------------------ *)
AA == <<"A", "A">>
AP == <<"A", "P">>

\* texts the user can have in the search box
SearchTexts == { <<>>, <<" ">>, <<"A">>, <<"a">>, AP, <<" ", "A">> }

\* validated movers lists the provider can deliver
GainerLists == { <<>>, <<[ticker |-> AA, price |-> "190.00"]>> }
LoserLists == { <<>>, <<[ticker |-> AP, price |-> "12.50"]>> }

\* bestMatches arrays of SYMBOL_SEARCH
RemoteMatches ==
  { <<>>,
    <<[symbol |-> AA, name |-> "Alcoa"]>>,
    <<[symbol |-> AP, name |-> "Ampco"], [symbol |-> AA, name |-> "Alcoa"]>> }

MoverErrors == { "HTTP error! status: 500", "Invalid response format" }

Undefined == "undefined"
NoError == "null"

EnvKeys == { Undefined, "YOUR_API_KEY_HERE", "KEY0123456789ABC" }

VARIABLES
  \* ---- Explore screen (ExploreScreen.tsx) ----
  envKey,           \* process.env.ALPHA_VANTAGE_API_KEY
  mounted,          \* the mount effects have run
  topGainers, topLosers, loading, error,
  fetchPc,          \* position of the fetchData run: "idle" | "gainers" | "losers"
  fetchGainers,     \* fetchData's local `response` once getTopGainers resolved
  search,           \* text of the search box
  searchResults, searchLoading,
  capturedGainers,  \* topGainers/topLosers seen by the fetchSearchResults
  capturedLosers,   \*   that the memoised debounced function closes over
  timers,           \* JS timer table: set of [id, remaining, query]
  timeoutId,        \* debounce's closure variable (0 = undefined)
  searches,         \* fetchSearchResults runs awaiting the remote call
  sinceChange,      \* ms since the last debouncedSearch call (history)
  fired,            \* queries the debounced function ran with since then (history)
  cancelled,        \* the last debouncedSearch call cleared a pending timer (history)
  searchHist,       \* since the last text change or press: the box was cleared;
                    \*   searchResults was set last by a run for another query
                    \*   than the text of the box; the remote matches that run
                    \*   received (history)
  \* ---- overview cache (StockDetailsScreen.tsx) ----
  cache,            \* the module-level Map: cache key -> payload
  calls,            \* fetchStockOverview calls awaiting fetchData
  netRequests,      \* network requests issued so far, per symbol (history)
  succeeded,        \* symbols for which a fetchData has returned (history)
  lastReturn,       \* how the last finished fetchStockOverview call ended (history)
  \* ---- add-to-watchlist modal (AddToWatchlistModal.tsx) ----
  storage,          \* AsyncStorage item 'watchlists', parsed (Null when never written)
  visible, symbol,  \* the modal's props
  watchlists, newName, selected,
  loads,            \* loadWatchlists runs in flight
  saves,            \* saveWatchlists runs in flight
  hist,             \* the last handler call and the state it was made in (history)
  presses,          \* presses so far (history)
  \* ---- movers validation (services/api) ----
  rawData,          \* the argument of validateStockData
  validated,        \* what validateStockData returned for it
  \* ---- Top Gainers / Top Losers screen (useStockData, ApiService) ----
  screen,           \* "TopGainer" | "TopLoser"
  hookMounted,      \* the screen's mount effect has run
  state,            \* useStockData's state: data, loading, refreshing, error
  reqPc,            \* makeRequest: "idle" | "fetch" (awaiting fetch) | "delay"
  retryCount,       \* makeRequest's parameter in the current attempt
  timer,            \* ms left on the pending setTimeout (abort timer or delay)
  attempts,         \* fetch() calls of the current request (history)
  delays,           \* ms waited before each retry of the current request (history)
  elapsed,          \* ms the current delay has lasted (history)
  lastFailure,      \* the error the last attempt threw (history)
  outcome,          \* how the last request ended (history)
  fetches,          \* fetchData runs started so far (history)
  \* ---- details screen: chart (StockDetailsScreen.tsx) ----
  detailsScreen,    \* the component's state: details, loading, chartData,
                    \*   selectedRange, chartLoading, error; chartOf is the range
                    \*   of the request that set chartData (history)
  chartReqs         \* stockApiService.fetchChartData calls in flight

exploreVars ==
  << envKey, mounted, topGainers, topLosers, loading, error, fetchPc,
     fetchGainers, search, searchResults, searchLoading, capturedGainers, capturedLosers, timers,
     timeoutId, searches, sinceChange, fired, cancelled, searchHist >>

cacheVars == << cache, calls, netRequests, succeeded, lastReturn >>

modalVars ==
  << storage, visible, symbol, watchlists, newName, selected, loads, saves, hist,
     presses >>

validateVars == << rawData, validated >>

moversVars ==
  << screen, hookMounted, state, reqPc, retryCount, timer, attempts, delays,
     elapsed, lastFailure, outcome, fetches >>

chartVars == << detailsScreen, chartReqs >>

otherThanExplore == << cacheVars, modalVars, validateVars, moversVars, chartVars >>

otherThanCache == << exploreVars, modalVars, validateVars, moversVars, chartVars >>

otherThanModal == << exploreVars, cacheVars, validateVars, moversVars, chartVars >>

otherThanValidate == << exploreVars, cacheVars, modalVars, moversVars, chartVars >>

otherThanMovers == << exploreVars, cacheVars, modalVars, validateVars, chartVars >>

otherThanChart == << exploreVars, cacheVars, modalVars, validateVars, moversVars >>

vars == << exploreVars, cacheVars, modalVars, validateVars, moversVars, chartVars >>

(* ------------------------------------------------------------------ *)
(* Explore screen                                                       *)
(* ------------------------------------------------------------------ *)
ALPHA_VANTAGE_API_KEY == IF envKey = Undefined THEN "demo" ELSE envKey

InitExplore ==
  /\ envKey \in EnvKeys
  /\ mounted = FALSE
  /\ topGainers = <<>>
  /\ topLosers = <<>>
  /\ loading = TRUE
  /\ error = NoError
  /\ fetchPc = "idle"
  /\ fetchGainers = <<>>
  /\ search = <<>>
  /\ searchResults = <<>>
  /\ searchLoading = FALSE
  /\ capturedGainers = topGainers
  /\ capturedLosers = topLosers
  /\ timers = {}
  /\ timeoutId = 0
  /\ searches = <<>>
  /\ sinceChange = 0
  /\ fired = <<>>
  /\ cancelled = FALSE
  /\ searchHist = [cleared |-> FALSE, stale |-> FALSE, reply |-> <<>>]

\* fetchData up to its first await (or to its end when the key check throws)
fetchDataStart ==
  IF ALPHA_VANTAGE_API_KEY = "" \/ ALPHA_VANTAGE_API_KEY = "YOUR_API_KEY_HERE"
  THEN /\ error' = "Please set your Alpha Vantage API key in src/config/environment.ts"
       /\ topGainers' = <<>>
       /\ topLosers' = <<>>
       /\ loading' = FALSE
       /\ fetchPc' = "idle"
  ELSE /\ error' = NoError
       /\ loading' = TRUE
       /\ fetchPc' = "gainers"
       /\ UNCHANGED << topGainers, topLosers >>

FreeTimerIds == (1..MaxTimers) \ ({t.id : t \in timers} \cup {timeoutId})

clearTimeout(id, table) == {t \in table : t.id # id}

\* debounce() without its clearTimeout
debouncedNoClear(query) ==
  /\ FreeTimerIds # {}
  /\ LET id == CHOOSE i \in FreeTimerIds : \A j \in FreeTimerIds : i <= j
     IN /\ timers' = timers
                       \cup {[id |-> id, remaining |-> DEBOUNCE_DELAY, query |-> query]}
        /\ timeoutId' = id
  /\ sinceChange' = 0
  /\ fired' = <<>>
  /\ cancelled' = (\E t \in timers : t.id = timeoutId)

\* the function debounce() returns: clear the previous timer, arm a new one
debounced(query) ==
  /\ FreeTimerIds # {}
  /\ LET id == CHOOSE i \in FreeTimerIds : \A j \in FreeTimerIds : i <= j
     IN /\ timers' = clearTimeout(timeoutId, timers)
                       \cup {[id |-> id, remaining |-> DEBOUNCE_DELAY, query |-> query]}
        /\ timeoutId' = id
  /\ sinceChange' = 0
  /\ fired' = <<>>
  /\ cancelled' = (\E t \in timers : t.id = timeoutId)

\* fetchSearchResults up to its remote call: the local matches are computed
\* from the topGainers/topLosers of the closure it was created in
localMatches(gainers, losers, query) ==
  LET lowerQuery == toLowerCase(query)
      Hit(item) == includes(toLowerCase(item.ticker), lowerQuery)
      gm == SelectSeq(gainers, Hit)
      lm == SelectSeq(losers, Hit)
  IN [i \in 1..Len(gm) |->
        [symbol |-> gm[i].ticker, name |-> "", price |-> gm[i].price, source |-> "gainer"]]
     \o
     [i \in 1..Len(lm) |->
        [symbol |-> lm[i].ticker, name |-> "", price |-> lm[i].price, source |-> "loser"]]

\* the part of fetchSearchResults after the remote call: map, de-duplicate, merge
combine(local, bestMatches) ==
  LET apiResults == [i \in 1..Len(bestMatches) |->
                       [symbol |-> bestMatches[i].symbol, name |-> bestMatches[i].name,
                        price |-> Undefined, source |-> "search"]]
      seen == {local[i].symbol : i \in 1..Len(local)}
      NotSeen(item) == item.symbol \notin seen
  IN local \o SelectSeq(apiResults, NotSeen)

\* the debounced body testing query.length instead of query.trim().length
debouncedBodyNoTrim(query) ==
  IF Len(query) > 0
  THEN /\ Len(searches) < MaxSearches
       /\ searchLoading' = TRUE
       /\ searches' = Append(searches,
            [query |-> trim(query),
             local |-> localMatches(capturedGainers, capturedLosers, trim(query)),
             tg |-> topGainers, tl |-> topLosers])
       /\ UNCHANGED searchResults
  ELSE /\ searchResults' = <<>>
       /\ UNCHANGED << searchLoading, searches >>

\* the async function handed to debounce(): it calls the fetchSearchResults of
\* the render in which useMemo(..., []) built it
debouncedBody(query) ==
  IF Len(trim(query)) > 0
  THEN /\ Len(searches) < MaxSearches
       /\ searchLoading' = TRUE
       /\ searches' = Append(searches,
            [query |-> trim(query),
             local |-> localMatches(capturedGainers, capturedLosers, trim(query)),
             tg |-> topGainers, tl |-> topLosers])
       /\ UNCHANGED searchResults
  ELSE /\ searchResults' = <<>>
       /\ UNCHANGED << searchLoading, searches >>

\* first render committed: both mount effects run
Mount ==
  /\ ~mounted
  /\ mounted' = TRUE
  /\ fetchDataStart
  /\ debounced(search)
  /\ UNCHANGED << envKey, fetchGainers, search, searchResults, searchLoading,
                  capturedGainers, capturedLosers, searches >>
  /\ UNCHANGED searchHist
  /\ UNCHANGED otherThanExplore

\* getTopGainers resolved; fetchData goes on to await getTopLosers
GainersResolve ==
  /\ fetchPc = "gainers"
  /\ \E g \in GainerLists : fetchGainers' = g
  /\ fetchPc' = "losers"
  /\ UNCHANGED << envKey, mounted, topGainers, topLosers, loading, error, search,
                  searchResults, searchLoading, capturedGainers, capturedLosers,
                  timers, timeoutId, searches, sinceChange, fired, cancelled >>
  /\ UNCHANGED searchHist
  /\ UNCHANGED otherThanExplore

LosersResolve ==
  /\ fetchPc = "losers"
  /\ \E l \in LoserLists : topLosers' = l
  /\ topGainers' = fetchGainers
  /\ loading' = FALSE
  /\ fetchPc' = "idle"
  /\ UNCHANGED << envKey, mounted, error, search, searchResults, searchLoading,
                  capturedGainers, capturedLosers, timers, timeoutId, searches,
                  sinceChange, fired, fetchGainers, cancelled >>
  /\ UNCHANGED searchHist
  /\ UNCHANGED otherThanExplore

\* a catch that keeps the gainers already fetched when the losers request fails
FetchRejectKeepingGainers ==
  /\ fetchPc \in {"gainers", "losers"}
  /\ \E m \in MoverErrors : error' = m
  /\ topGainers' = IF fetchPc = "losers" THEN fetchGainers ELSE <<>>
  /\ topLosers' = <<>>
  /\ loading' = FALSE
  /\ fetchPc' = "idle"
  /\ UNCHANGED << envKey, mounted, search, searchResults, searchLoading,
                  capturedGainers, capturedLosers, timers, timeoutId, searches,
                  sinceChange, fired, fetchGainers, cancelled >>
  /\ UNCHANGED searchHist
  /\ UNCHANGED otherThanExplore

\* either request rejects: catch and finally of fetchData
FetchReject ==
  /\ fetchPc \in {"gainers", "losers"}
  /\ \E m \in MoverErrors : error' = m
  /\ topGainers' = <<>>
  /\ topLosers' = <<>>
  /\ loading' = FALSE
  /\ fetchPc' = "idle"
  /\ UNCHANGED << envKey, mounted, search, searchResults, searchLoading,
                  capturedGainers, capturedLosers, timers, timeoutId, searches,
                  sinceChange, fired, fetchGainers, cancelled >>
  /\ UNCHANGED searchHist
  /\ UNCHANGED otherThanExplore

\* the Retry button of ErrorComponent
handleRetry ==
  /\ mounted
  /\ Len(search) = 0
  /\ ~loading
  /\ error # NoError
  /\ fetchDataStart
  /\ UNCHANGED << envKey, mounted, search, searchResults, searchLoading,
                  capturedGainers, capturedLosers, timers, timeoutId, searches,
                  sinceChange, fired, fetchGainers, cancelled >>
  /\ UNCHANGED searchHist
  /\ UNCHANGED otherThanExplore

\* onChangeText={setSearch}, then the [search] effect
ChangeText(q) ==
  /\ mounted
  /\ q # search
  /\ search' = q
  /\ debounced(q)
  /\ UNCHANGED << envKey, mounted, topGainers, topLosers, loading, error, fetchPc,
                  fetchGainers, searchResults, searchLoading, capturedGainers,
                  capturedLosers, searches >>
  /\ searchHist' = [cleared |-> FALSE, stale |-> FALSE, reply |-> <<>>]
  /\ UNCHANGED otherThanExplore

TypeText == \E q \in SearchTexts : ChangeText(q)

\* the clear button, shown while the box holds text
PressClear ==
  /\ mounted
  /\ Len(search) > 0
  /\ search' = <<>>
  /\ searchResults' = <<>>
  /\ debounced(<<>>)
  /\ UNCHANGED << envKey, mounted, topGainers, topLosers, loading, error, fetchPc,
                  fetchGainers, searchLoading, capturedGainers, capturedLosers,
                  searches >>
  /\ searchHist' = [cleared |-> TRUE, stale |-> FALSE, reply |-> <<>>]
  /\ UNCHANGED otherThanExplore

\* a row of the result list
PressResult ==
  /\ mounted
  /\ Len(search) > 0
  /\ \E i \in 1..Len(searchResults) :
       /\ search' = <<>>
       /\ searchResults' = <<>>
       /\ debounced(<<>>)
  /\ UNCHANGED << envKey, mounted, topGainers, topLosers, loading, error, fetchPc,
                  fetchGainers, searchLoading, capturedGainers, capturedLosers,
                  searches >>
  /\ searchHist' = [cleared |-> TRUE, stale |-> FALSE, reply |-> <<>>]
  /\ UNCHANGED otherThanExplore

Due == {t \in timers : t.remaining = 0}

\* a timer of the table expires and runs its callback
TimerFire(t) ==
  /\ t \in Due
  /\ timers' = timers \ {t}
  /\ fired' = Append(fired, t.query)
  /\ debouncedBody(t.query)
  /\ UNCHANGED << envKey, mounted, topGainers, topLosers, loading, error, fetchPc,
                  fetchGainers, search, capturedGainers, capturedLosers, timeoutId,
                  sinceChange, cancelled >>
  /\ searchHist' = IF Len(trim(t.query)) > 0 THEN searchHist
                   ELSE [cleared |-> searchHist.cleared \/ t.query = <<>>,
                         stale |-> FALSE, reply |-> <<>>]
  /\ UNCHANGED otherThanExplore

Fire == \E t \in timers : TimerFire(t)

RemoveAt(s, i) == SubSeq(s, 1, i - 1) \o SubSeq(s, i + 1, Len(s))

\* the commit of a run dropped when its query is no longer the text of the box
SearchResolveIfCurrent(i, bestMatches) ==
  /\ i \in DOMAIN searches
  /\ searchResults' = IF searches[i].query = trim(search)
                      THEN combine(searches[i].local, bestMatches)
                      ELSE searchResults
  /\ searchLoading' = FALSE
  /\ searches' = RemoveAt(searches, i)
  /\ UNCHANGED << envKey, mounted, topGainers, topLosers, loading, error, fetchPc,
                  fetchGainers, search, capturedGainers, capturedLosers, timers,
                  timeoutId, sinceChange, fired, cancelled >>
  /\ searchHist' = [searchHist EXCEPT !.stale = (searches[i].query # trim(search)),
                                   !.reply = bestMatches]
  /\ UNCHANGED otherThanExplore

\* the remote call of run i resolved with a body
SearchResolve(i, bestMatches) ==
  /\ i \in DOMAIN searches
  /\ searchResults' = combine(searches[i].local, bestMatches)
  /\ searchLoading' = FALSE
  /\ searches' = RemoveAt(searches, i)
  /\ UNCHANGED << envKey, mounted, topGainers, topLosers, loading, error, fetchPc,
                  fetchGainers, search, capturedGainers, capturedLosers, timers,
                  timeoutId, sinceChange, fired, cancelled >>
  /\ searchHist' = [searchHist EXCEPT !.stale = (searches[i].query # trim(search)),
                                   !.reply = bestMatches]
  /\ UNCHANGED otherThanExplore

\* the remote call of run i failed: the inner catch leaves apiResults empty
SearchReject(i) ==
  /\ i \in DOMAIN searches
  /\ searchResults' = combine(searches[i].local, <<>>)
  /\ searchLoading' = FALSE
  /\ searches' = RemoveAt(searches, i)
  /\ UNCHANGED << envKey, mounted, topGainers, topLosers, loading, error, fetchPc,
                  fetchGainers, search, capturedGainers, capturedLosers, timers,
                  timeoutId, sinceChange, fired, cancelled >>
  /\ searchHist' = [searchHist EXCEPT !.stale = (searches[i].query # trim(search)),
                                   !.reply = <<>>]
  /\ UNCHANGED otherThanExplore

RemoteDone == \E i \in DOMAIN searches, r \in RemoteMatches : SearchResolve(i, r)

RemoteFail == \E i \in DOMAIN searches : SearchReject(i)

\* time passes, up to the next timer's expiry
Tick ==
  /\ mounted
  /\ Due = {}
  /\ LET d == IF timers = {} THEN TickMs
              ELSE Min(TickMs, CHOOSE r \in {t.remaining : t \in timers} :
                                 \A t \in timers : r <= t.remaining)
     IN /\ timers' = {[t EXCEPT !.remaining = @ - d] : t \in timers}
        /\ sinceChange' = Min(sinceChange + d, DEBOUNCE_DELAY + TickMs)
  /\ UNCHANGED << envKey, mounted, topGainers, topLosers, loading, error, fetchPc,
                  fetchGainers, search, searchResults, searchLoading, capturedGainers,
                  capturedLosers, timeoutId, searches, fired, cancelled >>
  /\ UNCHANGED searchHist
  /\ UNCHANGED otherThanExplore

NextExplore ==
  \/ Mount
  \/ GainersResolve
  \/ LosersResolve
  \/ FetchReject
  \/ handleRetry
  \/ TypeText
  \/ PressClear
  \/ PressResult
  \/ Fire
  \/ RemoteDone
  \/ RemoteFail
  \/ Tick

(* ------------------------------------------------------------------ *)
(* Overview cache of the details screen                                 *)
(* ------------------------------------------------------------------ *)
OverviewSymbols == { AA, AP }

NetworkDown == [kind |-> "reject"]

HttpResponse(ok, status, body) ==
  [kind |-> "response", ok |-> ok, status |-> status, body |-> body]

\* JSON bodies of OVERVIEW; an absent field is the empty (falsy) string,
\* <<>> for the Symbol, which is a sequence of characters
Body(sym, name, errorMessage, note) ==
  [Symbol |-> sym, Name |-> name, ErrorMessage |-> errorMessage, Note |-> note]

OverviewResponses(s) ==
  { NetworkDown,
    HttpResponse(FALSE, 500, Body(<<>>, "", "", "")),
    HttpResponse(TRUE, 200, Body(<<>>, "", "Invalid API call.", "")),
    HttpResponse(TRUE, 200, Body(<<>>, "", "", "Thank you for using Alpha Vantage!")),
    HttpResponse(TRUE, 200, Body(<<>>, "", "", "")),
    HttpResponse(TRUE, 200, Body(s, "Alpha Inc", "", "")),
    HttpResponse(TRUE, 200, Body(s, "Alpha Corp", "", "")) }

Throw(message) == [throws |-> TRUE, message |-> message]

Return(data) == [throws |-> FALSE, data |-> data]

\* fetchData that lets a body with a Note through
fetchDataIgnoringNote(resp) ==
  IF resp.kind = "reject"
  THEN Throw("Failed to fetch stock overview: Network request failed")
  ELSE IF ~resp.ok
  THEN Throw("Failed to fetch stock overview: HTTP error! status")
  ELSE IF resp.body.ErrorMessage # ""
  THEN Throw("Failed to fetch stock overview: provider message")
  ELSE Return(resp.body)

\* fetchData(symbol) once fetch() has settled with resp
fetchData(resp) ==
  IF resp.kind = "reject"
  THEN Throw("Failed to fetch stock overview: Network request failed")
  ELSE IF ~resp.ok
  THEN Throw("Failed to fetch stock overview: HTTP error! status")
  ELSE IF resp.body.ErrorMessage # "" \/ resp.body.Note # ""
  THEN Throw("Failed to fetch stock overview: provider message")
  ELSE Return(resp.body)

cacheKey(s) == <<"overview_">> \o s

cacheHas(k) == k \in DOMAIN cache

cacheSet(k, v) == [x \in DOMAIN cache \cup {k} |-> IF x = k THEN v ELSE cache[x]]

None == [outcome |-> "none"]

InitCache ==
  /\ cache = [k \in {} |-> None]
  /\ calls = <<>>
  /\ netRequests = [s \in OverviewSymbols |-> 0]
  /\ succeeded = {}
  /\ lastReturn = None

\* fetchStockOverview that never looks into the cache
fetchStockOverviewNoLookup(s) ==
  /\ Len(calls) < MaxCalls
  /\ netRequests[s] < MaxRequests
  /\ calls' = Append(calls, [symbol |-> s])
  /\ netRequests' = [netRequests EXCEPT ![s] = @ + 1]
  /\ UNCHANGED << cache, succeeded, lastReturn >>
  /\ UNCHANGED otherThanCache

\* fetchStockOverview(symbol) up to its return (hit) or its await (miss)
fetchStockOverview(s) ==
  /\ IF cacheHas(cacheKey(s))
     THEN /\ lastReturn' = [outcome |-> "hit", symbol |-> s, data |-> cache[cacheKey(s)]]
          /\ UNCHANGED << calls, netRequests >>
     ELSE /\ Len(calls) < MaxCalls
          /\ netRequests[s] < MaxRequests
          /\ calls' = Append(calls, [symbol |-> s])
          /\ netRequests' = [netRequests EXCEPT ![s] = @ + 1]
          /\ UNCHANGED lastReturn
  /\ UNCHANGED << cache, succeeded >>
  /\ UNCHANGED otherThanCache

\* a details screen mounts for some symbol
FetchDetails == \E s \in OverviewSymbols : fetchStockOverview(s)

\* the fetch() of call i settles; fetchStockOverview resumes or rejects
OverviewSettle(i, resp) ==
  /\ i \in DOMAIN calls
  /\ LET s == calls[i].symbol
         r == fetchData(resp)
     IN IF r.throws
        THEN /\ lastReturn' = [outcome |-> "failed", symbol |-> s, message |-> r.message]
             /\ UNCHANGED << cache, succeeded >>
        ELSE /\ cache' = cacheSet(cacheKey(s), r.data)
             /\ succeeded' = succeeded \cup {s}
             /\ lastReturn' = [outcome |-> "stored", symbol |-> s, data |-> r.data]
  /\ calls' = RemoveAt(calls, i)
  /\ UNCHANGED netRequests
  /\ UNCHANGED otherThanCache

Settle == \E i \in DOMAIN calls : \E resp \in OverviewResponses(calls[i].symbol) : OverviewSettle(i, resp)

NextCache ==
  \/ FetchDetails
  \/ Settle

(* ------------------------------------------------------------------ *)
(* Add-to-watchlist modal                                               *)
(* ------------------------------------------------------------------ *)
\* getItem's result: null, or the stored JSON text (kept parsed)
Null == [isNull |-> TRUE]

Stored(lists) == [isNull |-> FALSE, lists |-> lists]

Tech == <<"T">>
Fin == <<"F">>

\* texts the user can have in the name box
NameInputs == { <<>>, <<" ">>, Tech, <<" ", "T">>, Fin }

\* symbols the modal is opened for
ModalSymbols == { "MSFT", "IBM" }

Watchlist(name, stocks) == [name |-> name, stocks |-> stocks]

\* what the storage item can hold when the session starts
StoredAtStart ==
  { Null,
    Stored(<<Watchlist(Tech, <<>>)>>),
    Stored(<<Watchlist(Tech, <<"IBM">>)>>),
    Stored(<<Watchlist(Fin, <<"MSFT">>), Watchlist(Tech, <<>>)>>) }

\* `if (data) lists = JSON.parse(data)` over `let lists = []`
Lists(data) == IF data.isNull THEN <<>> ELSE data.lists

Names(lists) == {lists[i].name : i \in 1..Len(lists)}

stocksInclude(stocks, sym) == \E i \in 1..Len(stocks) : stocks[i] = sym

NoCall == [op |-> "none"]

InitModal ==
  /\ storage \in StoredAtStart
  /\ visible = FALSE
  /\ symbol = ""
  /\ watchlists = <<>>
  /\ newName = <<>>
  /\ selected = [n \in {} |-> FALSE]
  /\ loads = <<>>
  /\ saves = <<>>
  /\ hist = NoCall
  /\ presses = 0

\* no load and no write in flight, and the modal's list is the stored one
InSync == loads = <<>> /\ saves = <<>> /\ watchlists = Lists(storage)

Called(op, arg) ==
  [op |-> op, arg |-> arg, pre |-> storage, sync |-> InSync,
   preSel |-> IF arg \in DOMAIN selected THEN selected[arg] ELSE FALSE]

\* the bookmark icon: the props change and the [visible] effect starts a load
Open(sym) ==
  /\ ~visible
  /\ Len(loads) < MaxLoads
  /\ presses < MaxPresses
  /\ presses' = presses + 1
  /\ visible' = TRUE
  /\ symbol' = sym
  /\ loads' = Append(loads, [pc |-> "getItem", symbol |-> sym, data |-> Null])
  /\ hist' = NoCall
  /\ UNCHANGED << storage, watchlists, newName, selected, saves >>
  /\ UNCHANGED otherThanModal

OpenModal == \E sym \in ModalSymbols : Open(sym)

Close ==
  /\ visible
  /\ visible' = FALSE
  /\ UNCHANGED << storage, symbol, watchlists, newName, selected, loads, saves, hist, presses >>
  /\ UNCHANGED otherThanModal

\* AsyncStorage.getItem of load i reads the item
LoadRead(i) ==
  /\ i \in DOMAIN loads
  /\ loads[i].pc = "getItem"
  /\ loads' = [loads EXCEPT ![i] = [@ EXCEPT !.pc = "resume", !.data = storage]]
  /\ UNCHANGED << storage, visible, symbol, watchlists, newName, selected, saves, hist, presses >>
  /\ UNCHANGED otherThanModal

\* loadWatchlists after its await
LoadResume(i) ==
  /\ i \in DOMAIN loads
  /\ loads[i].pc = "resume"
  /\ LET lists == Lists(loads[i].data)
     IN /\ watchlists' = lists
        /\ selected' = [n \in Names(lists) |->
               \E j \in 1..Len(lists) :
                  lists[j].name = n /\ stocksInclude(lists[j].stocks, loads[i].symbol)]
  /\ loads' = RemoveAt(loads, i)
  /\ UNCHANGED << storage, visible, symbol, newName, saves, hist, presses >>
  /\ UNCHANGED otherThanModal

\* saveWatchlists(lists) up to its await
saveWatchlists(lists) ==
  /\ Len(saves) < MaxPending
  /\ saves' = Append(saves, [pc |-> "setItem", lists |-> lists])

\* AsyncStorage.setItem of save i writes the item
SaveLand(i) ==
  /\ i \in DOMAIN saves
  /\ saves[i].pc = "setItem"
  /\ storage' = Stored(saves[i].lists)
  /\ saves' = [saves EXCEPT ![i] = [@ EXCEPT !.pc = "resume"]]
  /\ UNCHANGED << visible, symbol, watchlists, newName, selected, loads, hist, presses >>
  /\ UNCHANGED otherThanModal

\* AsyncStorage.setItem of save i rejects: saveWatchlists rejects at its
\* await, and its caller has returned without awaiting or catching it
SaveFail(i) ==
  /\ i \in DOMAIN saves
  /\ saves[i].pc = "setItem"
  /\ saves' = RemoveAt(saves, i)
  /\ UNCHANGED << storage, visible, symbol, watchlists, newName, selected, loads, hist, presses >>
  /\ UNCHANGED otherThanModal

\* saveWatchlists after its await
SaveResume(i) ==
  /\ i \in DOMAIN saves
  /\ saves[i].pc = "resume"
  /\ watchlists' = saves[i].lists
  /\ saves' = RemoveAt(saves, i)
  /\ UNCHANGED << storage, visible, symbol, newName, selected, loads, hist, presses >>
  /\ UNCHANGED otherThanModal

\* onChangeText={setNewName}
TypeName(text) ==
  /\ visible
  /\ text # newName
  /\ newName' = text
  /\ UNCHANGED << storage, visible, symbol, watchlists, selected, loads, saves, hist, presses >>
  /\ UNCHANGED otherThanModal

\* handleAddWatchlist without the name-exists check
handleAddWatchlistNoExistsCheck ==
  /\ visible
  /\ presses < MaxPresses
  /\ presses' = presses + 1
  /\ hist' = Called("create", newName)
  /\ IF trim(newName) = <<>>
     THEN UNCHANGED << newName, saves >>
     ELSE /\ saveWatchlists(watchlists \o <<Watchlist(trim(newName), <<>>)>>)
          /\ newName' = <<>>
  /\ UNCHANGED << storage, visible, symbol, watchlists, selected, loads >>
  /\ UNCHANGED otherThanModal

\* the Add button
handleAddWatchlist ==
  /\ visible
  /\ presses < MaxPresses
  /\ presses' = presses + 1
  /\ hist' = Called("create", newName)
  /\ IF trim(newName) = <<>> \/ \E i \in 1..Len(watchlists) : watchlists[i].name = trim(newName)
     THEN UNCHANGED << newName, saves >>
     ELSE /\ saveWatchlists(watchlists \o <<Watchlist(trim(newName), <<>>)>>)
          /\ newName' = <<>>
  /\ UNCHANGED << storage, visible, symbol, watchlists, selected, loads >>
  /\ UNCHANGED otherThanModal

\* the map of handleToggle adding a list for a name it does not find
toggledOrCreated(lists, name, sym) ==
  IF name \in Names(lists)
  THEN [i \in 1..Len(lists) |->
          IF lists[i].name # name THEN lists[i]
          ELSE IF stocksInclude(lists[i].stocks, sym)
               THEN [lists[i] EXCEPT !.stocks = SelectSeq(@, LAMBDA x : x # sym)]
               ELSE [lists[i] EXCEPT !.stocks = Append(@, sym)]]
  ELSE Append(lists, Watchlist(name, <<sym>>))

\* the map of handleToggle without its `exists` test
toggledAlwaysAdding(lists, name, sym) ==
  [i \in 1..Len(lists) |->
     IF lists[i].name # name THEN lists[i]
     ELSE [lists[i] EXCEPT !.stocks = Append(@, sym)]]

\* the map of handleToggle
toggled(lists, name, sym) ==
  [i \in 1..Len(lists) |->
     IF lists[i].name # name THEN lists[i]
     ELSE IF stocksInclude(lists[i].stocks, sym)
          THEN [lists[i] EXCEPT !.stocks = SelectSeq(@, LAMBDA x : x # sym)]
          ELSE [lists[i] EXCEPT !.stocks = Append(@, sym)]]

\* handleToggle(name): a row of the list, or a call with any name
handleToggle(name) ==
  /\ visible
  /\ presses < MaxPresses
  /\ presses' = presses + 1
  /\ hist' = IF hist.op = "toggle" /\ hist.arg = name
             THEN [hist EXCEPT !.op = "toggle2"]
             ELSE Called("toggle", name)
  /\ saveWatchlists(toggled(watchlists, name, symbol))
  /\ selected' = [n \in DOMAIN selected \cup {name} |->
                    IF n = name
                    THEN ~(IF n \in DOMAIN selected THEN selected[n] ELSE FALSE)
                    ELSE selected[n]]
  /\ UNCHANGED << storage, visible, symbol, watchlists, newName, loads >>
  /\ UNCHANGED otherThanModal

PressRow == \E n \in Names(watchlists) : handleToggle(n)

ToggleAnyName == \E n \in {Tech, Fin} : handleToggle(n)

EditName == \E text \in NameInputs : TypeName(text)

GetItemDone == \E i \in DOMAIN loads : LoadRead(i)

LoadDone == \E i \in DOMAIN loads : LoadResume(i)

SetItemDone == \E i \in DOMAIN saves : SaveLand(i)

SaveDone == \E i \in DOMAIN saves : SaveResume(i)

SetItemFail == \E i \in DOMAIN saves : SaveFail(i)

\* the modal as the user drives it
NextModal ==
  \/ OpenModal
  \/ Close
  \/ GetItemDone
  \/ LoadDone
  \/ EditName
  \/ handleAddWatchlist
  \/ PressRow
  \/ SetItemDone
  \/ SaveDone

\* the modal over a storage whose writes can fail
NextModalFaulty ==
  \/ OpenModal
  \/ Close
  \/ GetItemDone
  \/ LoadDone
  \/ EditName
  \/ handleAddWatchlist
  \/ PressRow
  \/ SetItemDone
  \/ SetItemFail
  \/ SaveDone

\* the modal's handlers as operations: handleToggle with any list name
NextStore ==
  \/ OpenModal
  \/ Close
  \/ GetItemDone
  \/ LoadDone
  \/ EditName
  \/ handleAddWatchlist
  \/ ToggleAnyName
  \/ SetItemDone
  \/ SaveDone

(* ------------------------------------------------------------------ *)
(* Movers-list validation (services/api: validateStockData)             *)
(* ------------------------------------------------------------------ *)
\* JSON values by type; a string is kept as its characters
Absent == [type |-> "undefined"]

Str(chars) == [type |-> "string", chars |-> chars]

Num(n) == [type |-> "number", value |-> n]

NullItem == [type |-> "null"]

StockObject(ticker, price, changeAmount, changePercentage) ==
  [type |-> "object", ticker |-> ticker, price |-> price,
   change_amount |-> changeAmount, change_percentage |-> changePercentage]

Array(items) == [type |-> "array", items |-> items]

\* JS truthiness of a value: undefined, null, "" and 0 are falsy
Truthy(v) ==
  CASE v.type = "undefined" -> FALSE
    [] v.type = "null" -> FALSE
    [] v.type = "string" -> v.chars # <<>>
    [] v.type = "number" -> v.value # 0
    [] OTHER -> TRUE

IsDigit(c) == c \in {"0", "1", "2", "3", "4", "5", "6", "7", "8", "9"}

StartsWith(s, prefix) == Len(s) >= Len(prefix) /\ SubSeq(s, 1, Len(prefix)) = prefix

\* parseFloat of the characters after leading white space and an optional sign
parseUnsigned(s) ==
  IF StartsWith(s, <<"I", "n", "f", "i", "n", "i", "t", "y">>) THEN "Infinity"
  ELSE IF s # <<>> /\ IsDigit(s[1]) THEN "finite"
  ELSE IF Len(s) >= 2 /\ s[1] = "." /\ IsDigit(s[2]) THEN "finite"
  ELSE "NaN"

\* parseFloat(v), as the kind of number it returns: "finite" | "Infinity" | "NaN"
parseFloat(v) ==
  CASE v.type = "number" -> "finite"
    [] v.type = "string" ->
         LET t == TrimStart(v.chars)
         IN IF t # <<>> /\ t[1] \in {"+", "-"} THEN parseUnsigned(Tail(t))
            ELSE parseUnsigned(t)
    [] OTHER -> "NaN"

isNaN(k) == k = "NaN"

\* the filter callback of validateStockData
validItem(item) ==
  IF item.type # "object" THEN FALSE
  ELSE IF ~Truthy(item.ticker) \/ item.ticker.type # "string"
          \/ trim(item.ticker.chars) = <<>> THEN FALSE
  ELSE IF ~Truthy(item.price) \/ isNaN(parseFloat(item.price)) THEN FALSE
  ELSE IF item.change_amount.type # "undefined" /\ isNaN(parseFloat(item.change_amount)) THEN FALSE
  ELSE IF item.change_percentage.type # "undefined" /\ isNaN(parseFloat(item.change_percentage))
       THEN FALSE
  ELSE TRUE

validateStockData(data) ==
  IF ~Truthy(data) \/ data.type # "array" THEN <<>>
  ELSE SelectSeq(data.items, validItem)

\* entries a movers array can hold
P125 == Str(<<"1", "2", ".", "5">>)
Pct == Str(<<"-", "1", ".", "5", "%">>)

RawItems ==
  { StockObject(Str(AA), P125, Pct, Pct),
    StockObject(Str(AP), Str(<<"7">>), Absent, Absent),
    StockObject(Str(AA), Absent, Absent, Absent),
    StockObject(Str(AP), Str(<<"I", "n", "f", "i", "n", "i", "t", "y">>), Absent, Absent),
    StockObject(Str(AA), Str(<<"n", "/", "a">>), Absent, Absent),
    StockObject(Str(AP), P125, Str(<<"n", "/", "a">>), Absent),
    StockObject(Str(<<" ">>), P125, Absent, Absent),
    StockObject(Absent, P125, Absent, Absent),
    StockObject(Str(AA), Num(0), Absent, Absent),
    NullItem }

RECURSIVE SeqsUpTo(_, _)
SeqsUpTo(S, n) ==
  IF n = 0 THEN {<<>>}
  ELSE LET shorter == SeqsUpTo(S, n - 1)
       IN shorter \cup {Append(q, x) : q \in shorter, x \in S}

\* arguments validateStockData can be called with
RawInputs == {Absent, Str(AA)} \cup {Array(q) : q \in SeqsUpTo(RawItems, MaxItems)}

NotRun == [done |-> FALSE]

InitValidate ==
  /\ rawData \in RawInputs
  /\ validated = NotRun

Validate ==
  /\ ~validated.done
  /\ validated' = [done |-> TRUE, list |-> validateStockData(rawData)]
  /\ UNCHANGED rawData
  /\ UNCHANGED otherThanValidate

NextValidate == Validate

(* ------------------------------------------------------------------ *)
(* Top Gainers / Top Losers screen: useStockData over ApiService         *)
(* ------------------------------------------------------------------ *)
\* API_CONFIG
TIMEOUT == 10000
RETRY_ATTEMPTS == 3
RETRY_DELAY == 1000

\* Error texts are sequences of words, so that message.includes() is computed
Error(name, message) == [name |-> name, message |-> message]

HttpErrorMessage(status) == <<"HTTP", "error!", "status:", ToString(status)>>

RequestTimeout == <<"Request", "timeout">>

InvalidResponseFormat == <<"Invalid", "response", "format">>

JsonParseError == <<"JSON", "Parse", "error:", "Unexpected", "token">>

\* provider sentinel texts ('Error Message' and 'Note')
InvalidApiCall == <<"Invalid", "API", "call.">>
RateLimitNote == <<"Thank", "you", "for", "using", "Alpha", "Vantage!">>
BusyNote == <<"Upstream", "timeout", "try", "again", "later">>

\* what a rejected fetch() carries: the wording is the platform's (React
\* Native's fetch rejects with 'Network request failed')
PlatformRejections ==
  { [kind |-> "reject", error |-> Error("TypeError", <<"Network", "request", "failed">>)],
    [kind |-> "reject", error |-> Error("TypeError", <<"network", "error">>)] }

Aborted == [kind |-> "reject", error |-> Error("AbortError", <<"Aborted">>)]

UnparsableBody == [json |-> FALSE]

MoversBody(errorMessage, note, gainers, losers) ==
  [json |-> TRUE, ErrorMessage |-> errorMessage, Note |-> note,
   top_gainers |-> gainers, top_losers |-> losers]

HttpStatuses == {200, 404, 429, 500}

IsOk(status) == status \in 200..299

GoodGainer == StockObject(Str(AA), P125, Pct, Pct)
GoodLoser == StockObject(Str(AP), Str(<<"7">>), Absent, Absent)
NoPrice == StockObject(Str(AA), Absent, Absent, Absent)

\* what fetch() can resolve with for TOP_GAINERS_LOSERS
MoversResponses ==
  { HttpResponse(IsOk(st), st, b) :
      st \in HttpStatuses,
      b \in { UnparsableBody,
              MoversBody(InvalidApiCall, <<>>, Absent, Absent),
              MoversBody(<<>>, RateLimitNote, Absent, Absent),
              MoversBody(<<>>, BusyNote, Absent, Absent),
              MoversBody(<<>>, <<>>, Absent, Absent),
              MoversBody(<<>>, <<>>, Array(<<>>), Array(<<>>)),
              MoversBody(<<>>, <<>>, Array(<<NoPrice, GoodGainer>>), Array(<<GoodLoser>>)) } }

FetchOutcomes == MoversResponses \cup PlatformRejections

Returned(data) == [kind |-> "returned", data |-> data]

Threw(err) == [kind |-> "threw", error |-> err]

\* the try block of makeRequest once fetch() has settled with r
makeRequestTry(r) ==
  IF r.kind = "reject" THEN Threw(r.error)
  ELSE IF ~r.ok THEN Threw(Error("Error", HttpErrorMessage(r.status)))
  ELSE IF ~r.body.json THEN Threw(Error("SyntaxError", JsonParseError))
  ELSE IF r.body.ErrorMessage # <<>> THEN Threw(Error("Error", r.body.ErrorMessage))
  ELSE IF r.body.Note # <<>> THEN Threw(Error("Error", r.body.Note))
  ELSE Returned(r.body)

\* the catch block retrying whatever the error says
makeRequestCatchAnyError(err, count) ==
  IF err.name = "AbortError" THEN Threw(Error("Error", RequestTimeout))
  ELSE IF count < RETRY_ATTEMPTS
  THEN [kind |-> "retry"]
  ELSE Threw(err)

\* the catch block of makeRequest: "retry" or the error it throws
makeRequestCatch(err, count) ==
  IF err.name = "AbortError" THEN Threw(Error("Error", RequestTimeout))
  ELSE IF count < RETRY_ATTEMPTS
          /\ (includes(err.message, <<"network">>) \/ includes(err.message, <<"timeout">>))
  THEN [kind |-> "retry"]
  ELSE Threw(err)

validateTopGainersResponse(data) ==
  IF data.ErrorMessage # <<>> \/ data.Note # <<>> THEN Null
  ELSE [isNull |-> FALSE,
        top_gainers |-> IF Truthy(data.top_gainers)
                        THEN validateStockData(data.top_gainers) ELSE <<>>,
        top_losers |-> IF Truthy(data.top_losers)
                       THEN validateStockData(data.top_losers) ELSE <<>>]

\* getTopGainers / getTopLosers after makeRequest has returned `data`
getTopMovers(which, data) ==
  LET validatedResponse == validateTopGainersResponse(data)
  IN IF validatedResponse.isNull THEN Threw(Error("Error", InvalidResponseFormat))
     ELSE Returned(IF which = "TopGainer" THEN validatedResponse.top_gainers
                   ELSE validatedResponse.top_losers)

emptyStateMessage ==
  IF screen = "TopGainer"
  THEN <<"No", "top", "gainers", "available", "at", "the", "moment">>
  ELSE <<"No", "top", "losers", "available", "at", "the", "moment">>

Err(message) == [isNull |-> FALSE, message |-> message]

NoOutcome == [kind |-> "none"]

InitMovers ==
  /\ screen \in {"TopGainer", "TopLoser"}
  /\ hookMounted = FALSE
  /\ state = [data |-> <<>>, loading |-> TRUE, refreshing |-> FALSE, error |-> Null]
  /\ reqPc = "idle"
  /\ retryCount = 0
  /\ timer = 0
  /\ attempts = 0
  /\ delays = <<>>
  /\ elapsed = 0
  /\ lastFailure = NoOutcome
  /\ outcome = NoOutcome
  /\ fetches = 0

\* delay() called with an exponential backoff
retryDelayExponential(count) == RETRY_DELAY * 2 ^ count

\* the argument of delay() before the retry that follows attempt `count`
retryDelay(count) == RETRY_DELAY * (count + 1)

\* makeRequest(endpoint, count) up to its await fetch(): arm the abort timer
makeRequest(count) ==
  /\ reqPc' = "fetch"
  /\ retryCount' = count
  /\ timer' = TIMEOUT
  /\ attempts' = IF count = 0 THEN 1 ELSE attempts + 1
  /\ elapsed' = 0

\* the RefreshControl is a prop of the FlatList, which renderContent returns
\* only when loading is false, error is null and data is not empty
RefreshControlRendered ==
  /\ hookMounted
  /\ ~state.loading
  /\ state.error = Null
  /\ Len(state.data) > 0

\* useStockData's fetchData up to its await
useStockDataFetch(isRefreshing) ==
  /\ fetches < MaxFetches
  /\ fetches' = fetches + 1
  /\ state' = [state EXCEPT !.error = Null,
                            !.refreshing = IF isRefreshing THEN TRUE ELSE @]
  /\ makeRequest(0)
  /\ delays' = <<>>
  /\ lastFailure' = NoOutcome
  /\ outcome' = NoOutcome

\* the mount effect of the screen
HookMount ==
  /\ ~hookMounted
  /\ hookMounted' = TRUE
  /\ useStockDataFetch(FALSE)
  /\ UNCHANGED screen
  /\ UNCHANGED otherThanMovers

\* pull-to-refresh
onRefresh ==
  /\ RefreshControlRendered
  /\ ~state.refreshing
  /\ reqPc = "idle"
  /\ useStockDataFetch(TRUE)
  /\ UNCHANGED << screen, hookMounted >>
  /\ UNCHANGED otherThanMovers

\* makeRequest ended with res: getTopGainers / getTopLosers goes on, then
\* fetchData of the hook sets the state
requestEnds(res) ==
  LET r == IF res.kind = "returned" THEN getTopMovers(screen, res.data) ELSE res
  IN /\ outcome' = res
     /\ reqPc' = "idle"
     /\ timer' = 0
     /\ state' = IF r.kind = "returned"
                 THEN [data |-> r.data, loading |-> FALSE, refreshing |-> FALSE,
                       error |-> IF Len(r.data) = 0 THEN Err(emptyStateMessage) ELSE Null]
                 ELSE [data |-> <<>>, loading |-> FALSE, refreshing |-> FALSE,
                       error |-> Err(r.error.message)]

\* fetch() of the current attempt settled with r: the rest of makeRequest
attemptSettles(r) ==
  LET t == makeRequestTry(r)
  IN IF t.kind = "returned"
     THEN /\ requestEnds(t)
          /\ UNCHANGED << retryCount, attempts, delays, elapsed, lastFailure >>
     ELSE LET c == makeRequestCatch(t.error, retryCount)
          IN /\ lastFailure' = t
             /\ IF c.kind = "retry"
                THEN /\ reqPc' = "delay"
                     /\ timer' = retryDelay(retryCount)
                     /\ elapsed' = 0
                     /\ UNCHANGED << state, outcome, retryCount, attempts, delays >>
                ELSE /\ requestEnds(c)
                     /\ UNCHANGED << retryCount, attempts, delays, elapsed >>

FetchSettle(r) ==
  /\ reqPc = "fetch"
  /\ timer > 0
  /\ attemptSettles(r)
  /\ UNCHANGED << screen, hookMounted, fetches >>
  /\ UNCHANGED otherThanMovers

FetchSettles == \E r \in FetchOutcomes : FetchSettle(r)

\* the abort timer expires: controller.abort() makes fetch() reject
AbortFire ==
  /\ reqPc = "fetch"
  /\ timer = 0
  /\ attemptSettles(Aborted)
  /\ UNCHANGED << screen, hookMounted, fetches >>
  /\ UNCHANGED otherThanMovers

\* delay() resolved: makeRequest(endpoint, retryCount + 1)
DelayElapse ==
  /\ reqPc = "delay"
  /\ timer = 0
  /\ delays' = Append(delays, elapsed)
  /\ makeRequest(retryCount + 1)
  /\ UNCHANGED << screen, hookMounted, state, lastFailure, outcome, fetches >>
  /\ UNCHANGED otherThanMovers

\* time passes, up to the expiry of the pending timer
RequestTick ==
  /\ reqPc # "idle"
  /\ timer > 0
  /\ LET d == Min(RequestTickMs, timer)
     IN /\ timer' = timer - d
        /\ elapsed' = IF reqPc = "delay" THEN elapsed + d ELSE elapsed
  /\ UNCHANGED << screen, hookMounted, state, reqPc, retryCount, attempts, delays,
                  lastFailure, outcome, fetches >>
  /\ UNCHANGED otherThanMovers

NextMovers ==
  \/ HookMount
  \/ onRefresh
  \/ FetchSettles
  \/ AbortFire
  \/ DelayElapse
  \/ RequestTick

(* ------------------------------------------------------------------ *)
(* Details screen: the chart and its range buttons                      *)
(* ------------------------------------------------------------------ *)
TIME_RANGES == <<"1D", "1W", "1M", "3M", "6M", "1Y">>

\* the index of each range button
Ranges == 0..(Len(TIME_RANGES) - 1)

\* closing prices a chart request can come back with
PriceSeries == { <<>>, <<101, 102>> }

NoRange == -1

InitChart ==
  /\ detailsScreen = [details |-> "null", loading |-> TRUE, chartData |-> <<>>,
                      chartOf |-> NoRange, selectedRange |-> 2,
                      chartLoading |-> FALSE, error |-> Null]
  /\ chartReqs = <<>>

\* fetchChartData(rangeIndex) up to its await, on state s with requests q
fetchChartData(s, q, rangeIndex) ==
  IF rangeIndex \notin Ranges
  THEN [s |-> [s EXCEPT !.error = Err("Invalid time range selected")], q |-> q]
  ELSE [s |-> [s EXCEPT !.chartLoading = TRUE, !.error = Null],
        q |-> Append(q, [range |-> rangeIndex])]

\* fetchDetails ends (overview fetched or failed): loading becomes false and
\* the chart effect calls fetchChartData(selectedRange)
DetailsSettle(ok) ==
  /\ detailsScreen.loading
  /\ Len(chartReqs) < MaxCharts
  /\ LET s == [detailsScreen EXCEPT
                 !.details = IF ok THEN "ok" ELSE "null",
                 !.error = IF ok THEN Null ELSE Err("Failed to fetch stock overview"),
                 !.loading = FALSE]
         f == fetchChartData(s, chartReqs, s.selectedRange)
     IN /\ detailsScreen' = f.s
        /\ chartReqs' = f.q
  /\ UNCHANGED otherThanChart

DetailsDone == \E ok \in BOOLEAN : DetailsSettle(ok)

\* the range buttons are part of the main content and disabled while chartLoading
RangeButtonsEnabled ==
  /\ ~detailsScreen.loading
  /\ detailsScreen.error = Null
  /\ detailsScreen.details = "ok"
  /\ ~detailsScreen.chartLoading

\* a range button: handleRangeSelection(rangeIndex), then the chart effect,
\* which runs again because selectedRange changed
handleRangeSelection(rangeIndex) ==
  /\ RangeButtonsEnabled
  /\ IF rangeIndex = detailsScreen.selectedRange
     THEN UNCHANGED << detailsScreen, chartReqs >>
     ELSE /\ Len(chartReqs) + 2 <= MaxCharts
          /\ LET s == [detailsScreen EXCEPT !.selectedRange = rangeIndex]
                 f == fetchChartData(s, chartReqs, rangeIndex)
                 g == fetchChartData(f.s, f.q, f.s.selectedRange)
             IN /\ detailsScreen' = g.s
                /\ chartReqs' = g.q
  /\ UNCHANGED otherThanChart

PressRange == \E r \in Ranges : handleRangeSelection(r)

\* request i comes back with prices: the rest of fetchChartData
ChartResolve(i, prices) ==
  /\ i \in DOMAIN chartReqs
  /\ detailsScreen' = [detailsScreen EXCEPT !.chartData = prices,
                                            !.chartOf = chartReqs[i].range,
                                            !.chartLoading = FALSE]
  /\ chartReqs' = RemoveAt(chartReqs, i)
  /\ UNCHANGED otherThanChart

\* request i fails: catch and finally of fetchChartData
ChartReject(i) ==
  /\ i \in DOMAIN chartReqs
  /\ detailsScreen' = [detailsScreen EXCEPT !.error = Err("Failed to fetch chart data"),
                                            !.chartData = <<>>,
                                            !.chartOf = chartReqs[i].range,
                                            !.chartLoading = FALSE]
  /\ chartReqs' = RemoveAt(chartReqs, i)
  /\ UNCHANGED otherThanChart

ChartDone == \E i \in DOMAIN chartReqs, prices \in PriceSeries : ChartResolve(i, prices)

ChartFail == \E i \in DOMAIN chartReqs : ChartReject(i)

NextChart ==
  \/ DetailsDone
  \/ PressRange
  \/ ChartDone
  \/ ChartFail

\* each screen is checked with the others left as constructed
ExploreUnused == InitExplore /\ envKey = Undefined

ModalUnused == InitModal /\ storage = Null

ValidateUnused == rawData = Absent /\ validated = NotRun

MoversUnused == InitMovers /\ screen = "TopGainer"

InitOfExplore == InitExplore /\ InitCache /\ ModalUnused /\ ValidateUnused /\ MoversUnused /\ InitChart

InitOfCache == ExploreUnused /\ InitCache /\ ModalUnused /\ ValidateUnused /\ MoversUnused /\ InitChart

InitOfModal == ExploreUnused /\ InitCache /\ InitModal /\ ValidateUnused /\ MoversUnused /\ InitChart

InitOfValidate == ExploreUnused /\ InitCache /\ ModalUnused /\ InitValidate /\ MoversUnused /\ InitChart

InitOfMovers == ExploreUnused /\ InitCache /\ ModalUnused /\ ValidateUnused /\ InitMovers /\ InitChart

InitOfChart ==
  ExploreUnused /\ InitCache /\ ModalUnused /\ ValidateUnused /\ MoversUnused /\ InitChart

SpecExplore == InitOfExplore /\ [][NextExplore]_vars

SpecCache == InitOfCache /\ [][NextCache]_vars

SpecModal == InitOfModal /\ [][NextModal]_vars

SpecStore == InitOfModal /\ [][NextStore]_vars

SpecModalFaulty == InitOfModal /\ [][NextModalFaulty]_vars

SpecValidate == InitOfValidate /\ [][NextValidate]_vars

SpecMovers == InitOfMovers /\ [][NextMovers]_vars

SpecChart == InitOfChart /\ [][NextChart]_vars

\* timers of the event loop expire, and an expired timer's callback runs
SpecMoversLive ==
  /\ SpecMovers
  /\ WF_vars(RequestTick)
  /\ WF_vars(AbortFire)
  /\ WF_vars(DelayElapse)

(* ------------------------------------------------------------------ *)
(* Claims about the Explore screen                                      *)
(* ------------------------------------------------------------------ *)
IsBlank(q) == \A i \in 1..Len(q) : q[i] = " "

SearchCommit(i) ==
  \/ SearchReject(i)
  \/ \E r \in RemoteMatches : SearchResolve(i, r)

\* every mover of the lists held when the run started whose ticker contains
\* the query is in `results` with its local tag and price, and not as a
\* remote entry
KeepsLocalMovers(run, results) ==
  \A src \in {"gainer", "loser"} :
    \A item \in Range(IF src = "gainer" THEN run.tg ELSE run.tl) :
      includes(toLowerCase(item.ticker), toLowerCase(run.query)) =>
        /\ \E r \in Range(results) :
             r.symbol = item.ticker /\ r.source = src /\ r.price = item.price
        /\ \A r \in Range(results) : r.symbol = item.ticker => r.source # "search"

\* C1: once the movers lists are populated, the result set a debounced
\* search commits for a query contained (case-insensitively) in a mover's
\* symbol holds that mover with its local source and price, and no remote
\* entry for it.
C1_HybridSearchKeepsLocalMovers ==
  [][\A i \in DOMAIN searches :
       SearchCommit(i) => KeepsLocalMovers(searches[i], searchResults')]_vars

\* C2: trailing-edge debounce.  At most one timer is pending; while it is
\* pending it is the one armed by the last text change, for that text, and
\* nothing has run since that change; once it is gone exactly one run has
\* happened, for the last text; and a timer runs DEBOUNCE_DELAY ms after the
\* change that armed it.
C2_TrailingDebounce ==
  /\ [](mounted =>
         /\ Cardinality(timers) <= 1
         /\ \A t \in timers :
              /\ t.id = timeoutId
              /\ t.query = search
              /\ t.remaining = DEBOUNCE_DELAY - sinceChange
              /\ fired = <<>>
         /\ timers = {} => fired = <<search>> /\ sinceChange >= DEBOUNCE_DELAY)
  /\ [][\A t \in timers :
          TimerFire(t) => t.query = search /\ sinceChange = DEBOUNCE_DELAY]_vars

\* "A" typed, then "AP" before the timer of "A" expired: one run, for "AP"
C2_Witness ==
  /\ cancelled
  /\ fired = <<AP>>
  /\ timers = {}
  /\ Len(searches) = 1
  /\ searches[1].query = AP

\* C3: when the timer fires with an empty or whitespace-only query, that
\* step issues no remote call and sets the result set to empty.
C3_BlankQueryClears ==
  [][\A t \in timers :
       (TimerFire(t) /\ IsBlank(t.query)) =>
          /\ searches' = searches
          /\ searchLoading' = searchLoading
          /\ searchResults' = <<>>]_vars

\* a whitespace-only query has fired while an earlier search was in flight
C3_Witness ==
  /\ fired = << <<" ">> >>
  /\ searchResults = <<>>
  /\ Len(searches) = 1

(* ------------------------------------------------------------------ *)
(* Claims about the overview cache                                      *)
(* ------------------------------------------------------------------ *)
\* the failures the claim lists: network error, HTTP error, sentinel field
IsFailedFetch(resp) ==
  \/ resp.kind = "reject"
  \/ /\ resp.kind = "response"
     /\ \/ ~resp.ok
        \/ resp.body.ErrorMessage # ""
        \/ resp.body.Note # ""

\* C4: once a fetchStockOverview(symbol) call has succeeded the cache holds
\* an entry for the symbol, and every later call returns that entry and
\* issues no network request.
C4_OverviewCacheHit ==
  /\ [](\A s \in succeeded : cacheHas(cacheKey(s)))
  /\ [][\A s \in OverviewSymbols :
          (s \in succeeded /\ fetchStockOverview(s)) =>
             /\ calls' = calls
             /\ netRequests' = netRequests
             /\ lastReturn' = [outcome |-> "hit", symbol |-> s,
                               data |-> cache[cacheKey(s)]]]_vars

\* a call was answered from the cache after the single request for its symbol
C4_Witness ==
  /\ lastReturn.outcome = "hit"
  /\ netRequests[lastReturn.symbol] = 1
  /\ lastReturn.data.Symbol # <<>>

\* C5: a failed overview fetch is never cached.  A fetch that fails leaves
\* the cache as it was, an entry exists only for a symbol some fetch of which
\* succeeded, and a call that finds no entry issues a network request.
C5_FailedFetchNotCached ==
  /\ [](\A s \in OverviewSymbols : cacheHas(cacheKey(s)) => s \in succeeded)
  /\ [][\A i \in DOMAIN calls :
          \A resp \in OverviewResponses(calls[i].symbol) :
             (OverviewSettle(i, resp) /\ IsFailedFetch(resp)) =>
                /\ cache' = cache
                /\ lastReturn'.outcome = "failed"]_vars
  /\ [][\A s \in OverviewSymbols :
          (~cacheHas(cacheKey(s)) /\ fetchStockOverview(s)) =>
             netRequests'[s] = netRequests[s] + 1]_vars

\* a fetch failed after an earlier failure for the same symbol: the second
\* call went to the network again and the cache still has no entry
C5_Witness ==
  /\ lastReturn.outcome = "failed"
  /\ netRequests[lastReturn.symbol] >= 2
  /\ ~cacheHas(cacheKey(lastReturn.symbol))
  /\ calls = <<>>

(* ------------------------------------------------------------------ *)
(* Claims about the watchlist modal                                     *)
(* ------------------------------------------------------------------ *)
Member(lists, name, sym) ==
  \E i \in 1..Len(lists) : lists[i].name = name /\ stocksInclude(lists[i].stocks, sym)

\* C6: create is a no-op on a blank or existing name and appends one empty
\* record otherwise.  For a press of Add made while no load or write is
\* pending and the modal's list is the stored one: if the trimmed name is
\* empty or names a stored watchlist, nothing is written and the stored and
\* in-memory collections stay as they were; otherwise exactly the record
\* {name: trimmed name, stocks: []} is appended at the end of both.
C6_CreateNoOpOrAppend ==
  (hist.op = "create" /\ hist.sync) =>
    LET n == trim(hist.arg)
        pre == Lists(hist.pre)
        post == pre \o <<Watchlist(n, <<>>)>>
    IN IF n = <<>> \/ n \in Names(pre)
       THEN storage = hist.pre /\ watchlists = pre /\ saves = <<>>
       ELSE IF saves = <<>>
            THEN storage = Stored(post) /\ watchlists = post
            ELSE /\ Len(saves) = 1
                 /\ saves[1].lists = post
                 /\ watchlists = pre
                 /\ storage \in {hist.pre, Stored(post)}

\* " T" was entered: the record appended and persisted is named "T"
C6_Witness ==
  /\ hist.op = "create"
  /\ hist.sync
  /\ hist.arg = <<" ", "T">>
  /\ saves = <<>>
  /\ storage = Stored(Lists(hist.pre) \o <<Watchlist(Tech, <<>>)>>)
  /\ watchlists = Lists(storage)

\* C7: two handleToggle calls in succession for an existing watchlist bring
\* the stored membership of the symbol and the selection shown for the list
\* back to their values before the first call, whether or not the first write
\* had completed when the second call was made.
C7_ToggleTwiceRestores ==
  (/\ hist.op = "toggle2"
   /\ hist.sync
   /\ hist.arg \in Names(Lists(hist.pre))
   /\ saves = <<>>
   /\ loads = <<>>) =>
    /\ Member(Lists(storage), hist.arg, symbol) = Member(Lists(hist.pre), hist.arg, symbol)
    /\ selected[hist.arg] = hist.preSel

\* C8: handleToggle with a name that no stored watchlist has leaves the
\* stored collection with the same watchlists, in the same order, with the
\* same stocks (for a call made while no load or write is pending).
C8_ToggleUnknownNameNoOp ==
  (/\ hist.op = "toggle"
   /\ hist.sync
   /\ hist.arg \notin Names(Lists(hist.pre))) =>
    Lists(storage) = Lists(hist.pre)

\* the write of such a call has completed over a non-empty collection
C8_Witness ==
  /\ hist.op = "toggle"
  /\ hist.sync
  /\ hist.arg \notin Names(Lists(hist.pre))
  /\ Len(Lists(hist.pre)) >= 1
  /\ saves = <<>>
  /\ ~storage.isNull

\* C9: no two records of the stored collection share a name, whatever the
\* interleaving of creates, toggles, loads and writes.
C9_UniqueNames ==
  LET lists == Lists(storage)
  IN \A i, j \in 1..Len(lists) : lists[i].name = lists[j].name => i = j

\* Add was pressed while an earlier write was pending, and its write landed
C9_Witness ==
  /\ hist.op = "create"
  /\ ~hist.sync
  /\ saves = <<>>
  /\ Len(Lists(storage)) = 2
  /\ Lists(storage)[2].name = trim(hist.arg)
  /\ Lists(hist.pre) # SubSeq(Lists(storage), 1, 1)

\* C10: every stored watchlist holds each symbol at most once, whatever the
\* interleaving of toggles and creates.
C10_NoDuplicateSymbols ==
  LET lists == Lists(storage)
  IN \A k \in 1..Len(lists) :
       \A i, j \in 1..Len(lists[k].stocks) :
          lists[k].stocks[i] = lists[k].stocks[j] => i = j

\* a row was pressed twice before the first write landed; both writes added
\* the symbol, and the stored list holds it once
C10_Witness ==
  /\ hist.op = "toggle2"
  /\ saves = <<>>
  /\ ~Member(Lists(hist.pre), hist.arg, symbol)
  /\ Member(Lists(storage), hist.arg, symbol)

\* C11: a watchlist name, once in the stored collection, is in every later
\* stored collection: no step of the modal (a create, a toggle, or the landing
\* of one of their writes, in any order) removes a watchlist.
C11_WatchlistsNeverDeleted ==
  [][\A n \in Names(Lists(storage)) : n \in Names(Lists(storage'))]_vars

(* ------------------------------------------------------------------ *)
(* Claims about the request client and the movers screens               *)
(* ------------------------------------------------------------------ *)
\* the errors the retry test of makeRequest takes for network errors
Transient(err) ==
  /\ err.name # "AbortError"
  /\ includes(err.message, <<"network">>) \/ includes(err.message, <<"timeout">>)

\* C12: bounded linear-backoff retry.  A request is retried at most
\* RETRY_ATTEMPTS times; the k-th retry comes after a wait of k * RETRY_DELAY
\* ms; a request whose last attempt failed with a network error fails with
\* that error, after RETRY_ATTEMPTS retries that waited 1000, 2000 and 3000
\* ms when the error is one the retry test recognises; and every request
\* that was started ends.
C12_BoundedLinearBackoff ==
  /\ [](/\ retryCount <= RETRY_ATTEMPTS
        /\ attempts <= RETRY_ATTEMPTS + 1
        /\ Len(delays) <= RETRY_ATTEMPTS
        /\ \A k \in 1..Len(delays) : delays[k] = k * RETRY_DELAY)
  /\ []((/\ outcome.kind = "threw"
         /\ lastFailure.kind = "threw"
         /\ lastFailure.error.name = "TypeError") =>
           /\ outcome.error = lastFailure.error
           /\ Transient(lastFailure.error) =>
                /\ attempts = RETRY_ATTEMPTS + 1
                /\ delays = <<RETRY_DELAY, 2 * RETRY_DELAY, 3 * RETRY_DELAY>>)
  /\ (reqPc # "idle") ~> (reqPc = "idle")

\* every attempt failed with a network error: three retries, then that error
C12_Witness ==
  /\ reqPc = "idle"
  /\ outcome.kind = "threw"
  /\ outcome.error = Error("TypeError", <<"network", "error">>)
  /\ attempts = 4
  /\ delays = <<1000, 2000, 3000>>

\* C13: a request fails with the timeout error only when its retries are
\* exhausted: an attempt aborted after TIMEOUT ms with retries left is
\* retried.
C13_TimeoutsAreRetried ==
  (outcome.kind = "threw" /\ outcome.error.message = RequestTimeout) =>
    retryCount = RETRY_ATTEMPTS

\* C14: a response with a non-2xx status ends the request at once, whatever
\* the retry counter: no wait and no further attempt follow, and the request
\* and the screen fail with the error text that carries the status.
C14_HttpErrorsNotRetried ==
  [][\A r \in MoversResponses :
       (FetchSettle(r) /\ ~IsOk(r.status)) =>
          /\ reqPc' = "idle"
          /\ attempts' = attempts
          /\ outcome' = Threw(Error("Error", HttpErrorMessage(r.status)))
          /\ includes(outcome'.error.message, <<ToString(r.status)>>)
          /\ state'.error = Err(HttpErrorMessage(r.status))]_vars

\* a 500 answered the third attempt of a request: it ended there
C14_Witness ==
  /\ outcome = Threw(Error("Error", HttpErrorMessage(500)))
  /\ attempts = 3
  /\ retryCount = 2
  /\ reqPc = "idle"

\* the sentinel text of a movers body ('Error Message' before 'Note')
Sentinel(body) == IF body.ErrorMessage # <<>> THEN body.ErrorMessage ELSE body.Note

HasSentinel(r) == r.body.json /\ Sentinel(r.body) # <<>>

\* C15: a movers response that carries a provider sentinel, with whatever
\* HTTP status, ends the request at once with the sentinel's text as the
\* error, and the screen's error is that text; it is never retried.
C15_ProviderErrorsVerbatim ==
  [][\A r \in MoversResponses :
       (FetchSettle(r) /\ HasSentinel(r)) =>
          /\ reqPc' = "idle"
          /\ attempts' = attempts
          /\ outcome' = Threw(Error("Error", Sentinel(r.body)))
          /\ state'.error = Err(Sentinel(r.body))]_vars

\* what the claim keeps: an object with a non-blank string ticker whose
\* price, change_amount and change_percentage, each when present, parse as a
\* finite number
Present(v) == v.type # "undefined"

ParsesFinite(v) == parseFloat(v) = "finite"

Satisfies(item) ==
  /\ item.type = "object"
  /\ item.ticker.type = "string"
  /\ trim(item.ticker.chars) # <<>>
  /\ Present(item.price) => ParsesFinite(item.price)
  /\ Present(item.change_amount) => ParsesFinite(item.change_amount)
  /\ Present(item.change_percentage) => ParsesFinite(item.change_percentage)

\* C16: validateStockData returns exactly the subsequence of the entries
\* that satisfy the condition above, in their order, and the empty list for
\* an argument that is not a list.
C16_ValidationIsFilter ==
  validated.done =>
    validated.list = IF rawData.type = "array"
                     THEN SelectSeq(rawData.items, Satisfies)
                     ELSE <<>>

ConfigurationError == "Please set your Alpha Vantage API key in src/config/environment.ts"

\* C17: with the API key absent from the environment, or a placeholder, a
\* movers fetch of the Explore screen that has ended has left the screen in
\* the error state with the configuration-error message.
C17_MissingKeyIsConfigError ==
  (/\ mounted
   /\ fetchPc = "idle"
   /\ envKey \in {Undefined, "YOUR_API_KEY_HERE"}) =>
     /\ ~loading
     /\ error = ConfigurationError

\* the error view of a screen is what the user sees
ExploreErrorShown == mounted /\ Len(search) = 0 /\ ~loading /\ error # NoError

MoversErrorShown ==
  /\ hookMounted
  /\ ~state.loading
  /\ state.error # Null
  /\ outcome.kind = "threw"

\* C18: a screen showing the error of a failed movers fetch offers a retry:
\* the Retry button on Explore, pull-to-refresh on Top Gainers / Top Losers.
C18_ErrorStateHasRetry ==
  /\ ExploreErrorShown => ENABLED handleRetry
  /\ MoversErrorShown => RefreshControlRendered

\* C19: a movers fetch that succeeded with zero items leaves the screen with
\* loading false, no data and error null (the empty state, not the error
\* state).
C19_EmptyIsNotError ==
  (/\ hookMounted
   /\ reqPc = "idle"
   /\ outcome.kind = "returned"
   /\ Len(state.data) = 0) =>
     /\ ~state.loading
     /\ state.error = Null

\* C20: a search whose remote call fails commits exactly the local matches
\* of the movers lists for its query, leaves the error state alone and ends
\* with searchLoading false.
C20_RemoteFailureKeepsLocal ==
  [][\A i \in DOMAIN searches :
       SearchReject(i) =>
          /\ searchResults' =
               localMatches(searches[i].tg, searches[i].tl, searches[i].query)
          /\ error' = error
          /\ searchLoading' = FALSE]_vars

(* ------------------------------------------------------------------ *)
(* Claims about the Explore screen's fetches and searches               *)
(* ------------------------------------------------------------------ *)
\* a fetchData run awaits getTopGainers / has called getTopLosers
GainersInFlight == fetchPc = "gainers"

LosersIssued == fetchPc = "losers"

\* C21: gainers and losers are fetched in parallel: while the top-gainers
\* request of a fetchData run is unresolved, the top-losers request of the
\* run has been issued too.
C21_MoversFetchedInParallel == GainersInFlight => LosersIssued

\* the entries of a movers list whose ticker contains the query, as results
MatchesOf(list, src, query) ==
  LET hits == SelectSeq(list, LAMBDA item :
                                includes(toLowerCase(item.ticker), toLowerCase(query)))
  IN [k \in 1..Len(hits) |->
        [symbol |-> hits[k].ticker, name |-> "", price |-> hits[k].price, source |-> src]]

\* C22: the result set a search commits on remote success is the gainer
\* matches in gainers-list order, then the loser matches in losers-list
\* order, then the remote matches whose symbol no local match has, in remote
\* order; the local entries carry a price and the remote entries none.
C22_MergeOrderAndDedup ==
  [][\A i \in DOMAIN searches : \A r \in RemoteMatches :
       SearchResolve(i, r) =>
         LET run == searches[i]
             gm == MatchesOf(run.tg, "gainer", run.query)
             lm == MatchesOf(run.tl, "loser", run.query)
             localSymbols == {x.symbol : x \in Range(gm \o lm)}
             rm == SelectSeq(r, LAMBDA m : m.symbol \notin localSymbols)
         IN /\ searchResults' =
                 gm \o lm \o [k \in 1..Len(rm) |->
                                [symbol |-> rm[k].symbol, name |-> rm[k].name,
                                 price |-> Undefined, source |-> "search"]]
            /\ \A x \in Range(searchResults') :
                 (x.source = "search") <=> (x.price = Undefined)]_vars

\* C23: a superseded search is neither cancelled nor discarded.  A step that
\* takes no run out of flight leaves the runs already in flight as they were
\* (typing, clearing and starting a newer search cancel none of them); a run
\* leaves flight only by committing a result set built from the local matches
\* it started with; and the result set holds every remote match the run that
\* set it last received, whatever the text of the box is by then and whether
\* or not a run started later has committed before it.
C23_SupersededSearchesCommit ==
  /\ [][IF Len(searches') >= Len(searches)
        THEN SubSeq(searches', 1, Len(searches)) = searches
        ELSE \E i \in DOMAIN searches :
               /\ searches' = RemoveAt(searches, i)
               /\ \E r \in RemoteMatches :
                    searchResults' = combine(searches[i].local, r)]_vars
  /\ [](\A m \in Range(searchHist.reply) :
          \E x \in Range(searchResults) : x.symbol = m.symbol)

\* the box holds "AP", the search for "AP" has run and no run is in flight,
\* and the result set was committed last by the run for an earlier text: the
\* run for "AP" committed first and the superseded run after it
C23_Witness ==
  /\ search = AP
  /\ fired = <<AP>>
  /\ timers = {}
  /\ searches = <<>>
  /\ searchHist.stale
  /\ searchHist.reply # <<>>

\* C24: a cleared search stays cleared.  Once the box is empty and its timer
\* has fired, or the clear button or a result row was pressed, the result set
\* is empty until the text changes again, also when a run for an earlier
\* query is still in flight.
C24_ClearedStaysCleared ==
  (search = <<>> /\ searchHist.cleared) => searchResults = <<>>

(* ------------------------------------------------------------------ *)
(* Claims about the modal's writes, the cache and the chart             *)
(* ------------------------------------------------------------------ *)
\* C25: a create or toggle whose storage write fails leaves no trace in the
\* modal: for a call made while nothing was pending, when its write is
\* rejected the collection is the one before the call, the selection flag of
\* a toggled list is the one before the call, and the name input of a create
\* still holds the name.
C25_FailedWriteLeavesNoTrace ==
  [][\A i \in DOMAIN saves :
       (/\ SaveFail(i)
        /\ Len(saves) = 1
        /\ hist.op \in {"create", "toggle"}
        /\ hist.sync) =>
          /\ storage' = hist.pre
          /\ watchlists' = Lists(hist.pre)
          /\ hist.op = "toggle" => selected'[hist.arg] = hist.preSel
          /\ hist.op = "create" => newName' # <<>>]_vars

\* the flag the modal shows for a list (a missing key of the map is falsy)
Shown(name) == name \in DOMAIN selected /\ selected[name]

\* C26: selection mirrors persisted membership.  While the modal is open
\* with no load and no write pending, the flag shown for every stored
\* watchlist is true exactly when the modal's symbol is among its stored
\* stocks.
C26_SelectionMirrorsStorage ==
  (visible /\ loads = <<>> /\ saves = <<>>) =>
    \A n \in Names(Lists(storage)) : Shown(n) = Member(Lists(storage), n, symbol)

\* C27: cache entries are write-once.  Under every interleaving of
\* fetchStockOverview calls an entry, once stored, is never removed and never
\* replaced, and at most one network request is issued per symbol.
C27_CacheWriteOnce ==
  /\ [][\A k \in DOMAIN cache : k \in DOMAIN cache' /\ cache'[k] = cache[k]]_vars
  /\ [](\A s \in OverviewSymbols : netRequests[s] <= 1)

\* C28: only usable payloads are cached.  Every cached payload has a
\* non-empty Symbol, so no call is answered from the cache with a payload the
\* details screen renders as its error state.
C28_OnlyUsablePayloadsCached ==
  /\ \A k \in DOMAIN cache : cache[k].Symbol # <<>>
  /\ lastReturn.outcome = "hit" => lastReturn.data.Symbol # <<>>

\* C29: the chart matches the selected range.  A press of a range button
\* other than the selected one issues exactly one chart request, a press of
\* the selected one none; and once the screen has loaded, whenever no chart
\* request is in flight the chart data comes from a request made for the
\* selected range.
C29_ChartMatchesSelectedRange ==
  /\ [][\A r \in Ranges :
          handleRangeSelection(r) =>
             Len(chartReqs') =
               Len(chartReqs) + (IF r = detailsScreen.selectedRange THEN 0 ELSE 1)]_vars
  /\ []((~detailsScreen.loading /\ chartReqs = <<>>) =>
           detailsScreen.chartOf = detailsScreen.selectedRange)

\* C30: the Explore movers fetch is all-or-nothing.  Once the screen has
\* mounted, whenever no fetchData run is in flight loading is false and
\* either error is null and the gainers list is the one the last run fetched
\* (committed together with that run's losers), or error is set and both
\* lists are empty.
C30_MoversAllOrNothing ==
  /\ []((mounted /\ fetchPc = "idle") =>
          /\ ~loading
          /\ \/ error = NoError /\ topGainers = fetchGainers
             \/ error # NoError /\ topGainers = <<>> /\ topLosers = <<>>)
  /\ [][(fetchPc # "idle" /\ fetchPc' = "idle" /\ error' = NoError) =>
           /\ fetchPc = "losers"
           /\ topGainers' = fetchGainers
           /\ topLosers' \in LoserLists]_vars

\* the gainers request returned a mover and the losers request then failed:
\* the screen shows the error and neither list holds anything
C30_Witness ==
  /\ mounted
  /\ fetchPc = "idle"
  /\ error \in MoverErrors
  /\ fetchGainers # <<>>
  /\ topGainers = <<>>
  /\ topLosers = <<>>
  /\ ~loading

====
